---- MODULE Spec2Model ----
(***************************************************************************)
(* Model of interactive_plotting.py: the public plotting functions as      *)
(* single-shot calls on a caller-owned AnnData object, the caller-owned    *)
(* mutable arguments they receive by reference (cell_keys list, kernel     *)
(* parameter dicts), and the observable effects of each call (what was     *)
(* computed, created and shown, in order, and how the call ended).         *)
(***************************************************************************)
EXTENDS Integers, Sequences, FiniteSets, TLC

VARIABLES
    adata,                  \* the caller's AnnData object
    scratch,                \* the last transient AnnData the callee worked on (ad_tmp / ad)
    cell_keys,              \* the caller's list object passed as `cell_keys`
    kernel_params,          \* the caller's dict object passed as `kernel_params`
    kernel_default_params,  \* the caller's dict object passed as `kernel_default_params`
    opt_params,             \* the keyword dict **opt_params of the last smooth_expression call
    doc,                    \* the widgets of the document the last call showed, as the browser holds them
    last,                   \* the most recent call: function, arguments, outcome, effects, return value
    prev,                   \* the call before it (recorded when `track` is set)
    track                   \* whether the previous call is being recorded

vars == <<adata, scratch, cell_keys, kernel_params, kernel_default_params, opt_params, doc, last, prev, track>>

-----------------------------------------------------------------------------
(* Bounds *)

NCells == 3          \* observations in the data object
MaxBins == 2         \* min_bins / max_bins range over 0..MaxBins
SliderSteps == 2     \* the distance slider is moved in steps of end / SliderSteps
MaxValue == 3        \* the values of a histogram range over 0..MaxValue
MaxLen == 3          \* a histogram is made of 1..MaxLen values

-----------------------------------------------------------------------------
(* Generic helpers for Python lists and dicts *)

\* Python's None, where the other values are lists or trees
None == <<"NoneType">>

Range(s) == {s[i] : i \in 1..Len(s)}

\* list.insert(0, x)
Insert0(s, x) == <<x>> \o s

\* list(dict.fromkeys(s)): drop repeated entries, keep first occurrences in order
RECURSIVE FromKeys(_)
FromKeys(s) ==
    IF s = <<>> THEN <<>>
    ELSE LET init == FromKeys(SubSeq(s, 1, Len(s) - 1))
             x == s[Len(s)]
         IN IF x \in Range(init) THEN init ELSE Append(init, x)

\* s[1:]
Tail1(s) == IF s = <<>> THEN <<>> ELSE Tail(s)

\* dict without key k (the dict after d.pop(k, default))
DictPop(d, k) == [x \in (DOMAIN d) \ {k} |-> d[x]]

\* d.get(k, dflt)
DictGet(d, k, dflt) == IF k \in DOMAIN d THEN d[k] ELSE dflt

EmptyDict == [x \in {} |-> ""]

\* dict literals
D1(k, v) == [x \in {k} |-> v]
D2(k1, v1, k2, v2) == [x \in {k1, k2} |-> IF x = k1 THEN v1 ELSE v2]

-----------------------------------------------------------------------------
(* The AnnData object.  All stored values are opaque strings. *)

ObsUniverse == {"n_counts", "louvain", "dpt_pseudotime"}
VarNames == {"g1", "g2"}

ObsData(col) ==
    [i \in 1..NCells |->
        IF col = "louvain" THEN (IF i % 2 = 1 THEN "0" ELSE "1")
        ELSE IF col = "n_counts" THEN (IF i % 2 = 1 THEN "10" ELSE "20")
        ELSE IF i = 1 THEN "0.0" ELSE "0.5"]

MkAdata(obsCols, hasDE, hasRoot) ==
    [ obs  |-> [c \in obsCols |-> ObsData(c)],
      var  |-> [c \in {"n_cells", "velocity_genes"} |-> [g \in VarNames |-> IF c = "n_cells" THEN "3" ELSE "True"]],
      var_names |-> VarNames,
      X    |-> "X",
      obsm |-> [b \in {"X_umap", "X_pca", "X_diffmap"} |-> "emb"],
      uns  |-> [k \in (IF hasDE THEN {"rank_genes_groups"} ELSE {}) \cup (IF hasRoot THEN {"iroot"} ELSE {})
                  |-> IF k = "iroot" THEN "1" ELSE "louvain"] ]

DefaultAdata == MkAdata(ObsUniverse, TRUE, FALSE)

\* the value of `scratch` while a call has made no transient object
NoScratch == MkAdata({}, FALSE, FALSE)

\* the data objects the calls are made on: with and without the columns and the
\* prerequisite results the functions look for
ObsVariants == {ObsUniverse, ObsUniverse \ {"dpt_pseudotime"}, ObsUniverse \ {"louvain"}, {}}

Adatas == {MkAdata(o, d, FALSE) : o \in ObsVariants, d \in BOOLEAN}

-----------------------------------------------------------------------------
(* Call records *)

NoRet == [isNone |-> TRUE, data |-> EmptyDict]

\* what the per-cell hover tool of the displayed chart shows
NoChart == [tooltips |-> <<>>, hover |-> FALSE]

\* no document with followed widgets
NoDoc == [kind |-> "none"]

NoCall == [fn |-> "none", args |-> <<>>, outcome |-> "none", log |-> <<>>, ret |-> NoRet, chart |-> NoChart]

Call(fn, args, res) ==
    [fn |-> fn, args |-> args, outcome |-> res.outcome, log |-> res.log, ret |-> res.ret,
     chart |-> res.chart]

\* a call that ran to its end / a call that raised
Done(log, ret) == [outcome |-> "ok", log |-> log, ret |-> ret, chart |-> NoChart]
DoneChart(log, chart) == [outcome |-> "ok", log |-> log, ret |-> NoRet, chart |-> chart]
Raise(exc, log) == [outcome |-> exc, log |-> log, ret |-> NoRet, chart |-> NoChart]

\* the kinds of effect a call has had
Kinds(log) == {log[i][1] : i \in 1..Len(log)}

Record(fn, args, res) ==
    /\ last' = Call(fn, args, res)
    /\ prev' = IF track THEN last ELSE prev
    /\ UNCHANGED track

-----------------------------------------------------------------------------
(* interactive_histograms *)

\* a set as a list, in some fixed order (Python iterates a set in an arbitrary order)
RECURSIVE SetToSeq(_)
SetToSeq(S) ==
    IF S = {} THEN <<>>
    ELSE LET x == CHOOSE y \in S : TRUE IN <<x>> \o SetToSeq(S \ {x})

RECURSIVE Zip(_, _)
Zip(a, b) ==
    IF a = <<>> \/ b = <<>> THEN <<>>
    ELSE <<[ad |-> Head(a), group_vs |-> Head(b)]>> \o Zip(Tail(a), Tail(b))

\* the range check on the slider limits
BinsRangeError_offbyone(min_bins, max_bins) == min_bins < 0 \/ max_bins < min_bins

BinsRangeError(min_bins, max_bins) == min_bins < 1 \/ max_bins < min_bins

\* a key that is in none of the three tables
KeyUnknown_varnames(ad, key) ==
    /\ key \notin DOMAIN ad.obs
    /\ key \notin DOMAIN ad.var
    /\ key \in ad.var_names

KeyUnknown(ad, key) ==
    /\ key \notin DOMAIN ad.obs
    /\ key \notin DOMAIN ad.var
    /\ key \notin ad.var_names

\* the keys looked up by the input check, up to and including the first unknown one
RECURSIVE CheckedKeys(_, _)
CheckedKeys(ad, keys) ==
    IF keys = <<>> THEN <<>>
    ELSE IF KeyUnknown(ad, Head(keys)) THEN <<Head(keys)>>
    ELSE <<Head(keys)>> \o CheckedKeys(ad, Tail(keys))

LookupLog(ks) == [i \in 1..Len(ks) |-> <<"lookup", ks[i]>>]

\* the value combinations of the group columns
Combs(ad, groups) ==
    LET vals == UNION {Range(ad.obs[g]) : g \in Range(groups)}
    IN SetToSeq({f \in [1..Len(groups) -> vals] :
                    \A i \in 1..Len(groups) : f[i] \in Range(ad.obs[groups[i]])})

\* adata[mask]: the observations whose group columns carry the combination
Subset(ad, groups, vals) ==
    {c \in 1..NCells : \A i \in 1..Len(groups) : ad.obs[groups[i]][c] = vals[i]}

AllCells == 1..NCells

\* _create_adata_groups: the two lists (adatas, combs), zipped by the caller
create_adata_groups(ad, groups, display_all) ==
    IF groups = None THEN [adatas |-> <<AllCells>>, combs |-> <<<<"all">>>>]
    ELSE LET combs == Combs(ad, groups)
             adatas == [i \in 1..Len(combs) |-> Subset(ad, groups, combs[i])] \o <<AllCells>>
         IN IF display_all
            THEN [adatas |-> adatas \o <<AllCells>>, combs |-> combs \o <<<<"all">>>>]
            ELSE [adatas |-> adatas, combs |-> combs]

\* filter(lambda ad_g: ad_g[0].n_obs > 0, zip(*ad_gs))
NonEmptyGroups_unfiltered(ad_gs) == Zip(ad_gs.adatas, ad_gs.combs)

NonEmptyGroups(ad_gs) == SelectSeq(Zip(ad_gs.adatas, ad_gs.combs), LAMBDA g : g.ad # {})

\* the body of the loop over keys: one figure and slider per key, one histogram per group
RECURSIVE HistFigures(_, _)
HistFigures(keys, ngroups) ==
    IF keys = <<>> THEN <<>>
    ELSE <<<<"figure", Head(keys)>>, <<"slider", Head(keys)>>>>
         \o [j \in 1..ngroups |-> <<"histogram", Head(keys)>>]
         \o HistFigures(Tail(keys), ngroups)

interactive_histograms(ad, keys, min_bins, max_bins, groups, display_all) ==
    IF BinsRangeError(min_bins, max_bins) THEN Raise("ValueError", <<>>)
    ELSE LET checked == CheckedKeys(ad, keys)
             log1 == LookupLog(checked)
         IN IF checked # <<>> /\ KeyUnknown(ad, checked[Len(checked)]) THEN Raise("ValueError", log1)
            ELSE IF groups # None /\ ~(Range(groups) \subseteq DOMAIN ad.obs)
                 THEN Raise("KeyError", log1)
            ELSE LET gs == NonEmptyGroups(create_adata_groups(ad, groups, display_all))
                     log2 == log1 \o <<<<"groups", "">>>> \o HistFigures(keys, Len(gs))
                 IN IF keys = <<>> THEN Raise("ValueError", log2)   \* np.array_split into 0 sections
                    ELSE Done(log2 \o <<<<"show", "">>>>, NoRet)

\* adata.X: the expression of gene g in cell c; the cells lie along g1
XData(g, c) == IF g = "g1" THEN (c * (c - 1)) \div 2 ELSE 0

\* the values np.histogram is given for one key and one group
HistValues(ad, key, cells) ==
    IF key \in DOMAIN ad.obs THEN [c \in cells |-> ad.obs[key][c]]
    ELSE IF key \in DOMAIN ad.var THEN ad.var[key]
    ELSE [c \in cells |-> XData(key, c)]         \* ad[:, key].X

Values(f) == {f[x] : x \in DOMAIN f}

RECURSIVE CeilLog2(_)
CeilLog2(n) == IF n <= 1 THEN 0 ELSE 1 + CeilLog2((n + 1) \div 2)

\* len(hist) for bins='auto': one bin when the values span no range, else the Sturges
\* count ceil(log2(n) + 1), the estimate 'auto' settles on for the columns used here
AutoBins(vals) ==
    IF Cardinality(Values(vals)) <= 1 THEN 1 ELSE CeilLog2(Cardinality(DOMAIN vals)) + 1

\* len(hist) of np.histogram(orig, density=True, bins=bins)
NBins(bins, vals) == IF bins.auto THEN AutoBins(vals) ELSE bins.n

\* ', '.join(': '.join(map(str, gv)) for gv in zip(groups, group_vs))
RECURSIVE JoinPairs(_, _)
JoinPairs(groups, group_vs) ==
    IF groups = <<>> \/ group_vs = <<>> THEN ""
    ELSE LET gv == Head(groups) \o ": " \o Head(group_vs)
             rest == JoinPairs(Tail(groups), Tail(group_vs))
         IN IF rest = "" THEN gv ELSE gv \o ", " \o rest

Legend(groups, group_vs) == IF groups # None THEN JoinPairs(groups, group_vs) ELSE "all"

\* one pass of the loop over the groups: the quad drawn and the array lengths of its source
Histogram(ad, key, bins, groups, g) ==
    [legend |-> Legend(groups, g.group_vs), group_vs |-> g.group_vs, ad |-> g.ad,
     bins |-> NBins(bins, HistValues(ad, key, g.ad))]

\* one pass of the loop over the keys: the slider, created with value 0 and set by every group
HistFigure(ad, key, bins, min_bins, max_bins, groups, gs) ==
    LET hists == [j \in 1..Len(gs) |-> Histogram(ad, key, bins, groups, gs[j])]
    IN [key |-> key,
        slider |-> [start |-> min_bins, end |-> max_bins,
                    value |-> IF hists = <<>> THEN 0 ELSE hists[Len(hists)].bins],
        hists |-> hists]

\* the document shown when the call returns
HistDoc(ad, keys, bins, min_bins, max_bins, groups, display_all) ==
    LET gs == NonEmptyGroups(create_adata_groups(ad, groups, display_all))
    IN [kind |-> "histograms",
        figs |-> [k \in 1..Len(keys) |-> HistFigure(ad, keys[k], bins, min_bins, max_bins, groups, gs)]]

KeysArgs == {<<>>, <<"g1", "n_cells">>, <<"zzz">>, <<"n_counts", "zzz">>}

\* (groups, display_all); display_all is read only when groups is given
GroupsArgs == {<<None, TRUE>>, <<<<"louvain">>, FALSE>>, <<<<"louvain", "n_counts">>, TRUE>>}

\* bins='auto', the default
Auto == [auto |-> TRUE, n |-> 0]

\* the calls with the default bins
InteractiveHistograms ==
    \E keys \in KeysArgs, min_bins \in 0..MaxBins, max_bins \in 0..MaxBins, g \in GroupsArgs :
        LET res == interactive_histograms(adata, keys, min_bins, max_bins, g[1], g[2])
        IN /\ Record("interactive_histograms",
                     [keys |-> keys, bins |-> Auto, min_bins |-> min_bins, max_bins |-> max_bins,
                      groups |-> g[1], display_all |-> g[2]],
                     res)
           /\ doc' = IF res.outcome = "ok"
                     THEN HistDoc(adata, keys, Auto, min_bins, max_bins, g[1], g[2])
                     ELSE NoDoc
           /\ scratch' = NoScratch
           /\ UNCHANGED <<adata, cell_keys, kernel_params, kernel_default_params, opt_params>>

ObsKeysArgs == {<<"n_counts">>, <<"louvain", "n_cells">>}

BinsArgs == {Auto} \cup {[auto |-> FALSE, n |-> n] : n \in 1..MaxBins}

GroupsAllArgs ==
    {<<None, TRUE>>} \cup {<<g, d>> : g \in {<<"louvain">>, <<"louvain", "n_counts">>}, d \in BOOLEAN}

\* the calls on columns of adata.obs with `bins` given
InteractiveHistogramsBins ==
    \E keys \in ObsKeysArgs, bins \in BinsArgs, min_bins \in 1..MaxBins, max_bins \in 1..MaxBins,
       g \in GroupsAllArgs :
        LET res == interactive_histograms(adata, keys, min_bins, max_bins, g[1], g[2])
        IN /\ Record("interactive_histograms",
                     [keys |-> keys, bins |-> bins, min_bins |-> min_bins, max_bins |-> max_bins,
                      groups |-> g[1], display_all |-> g[2]],
                     res)
           /\ doc' = IF res.outcome = "ok"
                     THEN HistDoc(adata, keys, bins, min_bins, max_bins, g[1], g[2])
                     ELSE NoDoc
           /\ scratch' = NoScratch
           /\ UNCHANGED <<adata, cell_keys, kernel_params, kernel_default_params, opt_params>>

\* the user moves the slider of one figure: every callback of that slider rebuilds its
\* histogram with n_bins = slider.value
SliderChange ==
    /\ doc.kind = "histograms"
    /\ \E k \in DOMAIN doc.figs :
         \E value \in doc.figs[k].slider.start..doc.figs[k].slider.end :
            doc' = [doc EXCEPT !.figs[k].slider.value = value,
                               !.figs[k].hists = [j \in DOMAIN @ |-> [@[j] EXCEPT !.bins = value]]]
    /\ UNCHANGED <<adata, scratch, cell_keys, kernel_params, kernel_default_params, opt_params,
                   last, prev, track>>

-----------------------------------------------------------------------------
(* The histogram of one group: np.histogram on the server, _inter_hist_js_code in the
   browser.  Values are integers; an edge or a density n / d is the pair <<n, d>>, a
   division by zero keeping d = 0. *)

RECURSIVE InsertSorted(_, _)
InsertSorted(x, v) ==
    IF x = <<>> THEN <<v>>
    ELSE IF v <= Head(x) THEN <<v>> \o x
    ELSE <<Head(x)>> \o InsertSorted(Tail(x), v)

\* x.sort((a, b) => a - b)
RECURSIVE Sort(_)
Sort(x) == IF x = <<>> THEN <<>> ELSE InsertSorted(Sort(Tail(x)), Head(x))

\* the first j with x <= r_edges[j], or 0 when there is none
FirstBin(xn, r_edges) ==
    LET hits == {j \in 1..Len(r_edges) : xn <= r_edges[j][1]}
    IN IF hits = {} THEN 0 ELSE CHOOSE j \in hits : \A h \in hits : j <= h

\* _inter_hist_js_code with bins.value = n_bins
inter_hist_js(values, n_bins) ==
    LET x == Sort(values)
        lo == x[1]
        hi == x[Len(x)]
        l_edges == [j \in 1..n_bins |-> <<lo * n_bins + (hi - lo) * (j - 1), n_bins>>]
        r_edges == [j \in 1..n_bins |-> <<lo * n_bins + (hi - lo) * j, n_bins>>]
        hist == [j \in 1..n_bins |->
                    Cardinality({i \in 1..Len(x) : FirstBin(x[i] * n_bins, r_edges) = j})]
        sum == Cardinality({i \in 1..Len(x) : FirstBin(x[i] * n_bins, r_edges) # 0})
    IN [hist |-> [j \in 1..n_bins |-> <<hist[j] * n_bins, (hi - lo) * sum>>],
        l_edges |-> l_edges, r_edges |-> r_edges]

\* np.histogram(values, bins=n, density=True): n equal bins over [min, max], widened by a
\* half on both sides when min = max; every bin is half-open but the last
np_histogram(values, n) ==
    LET x == Sort(values)
        lo == x[1]
        hi == x[Len(x)]
        first == IF lo = hi THEN 2 * lo - 1 ELSE 2 * lo           \* in halves
        last_edge == IF lo = hi THEN 2 * hi + 1 ELSE 2 * hi
        edges == [j \in 1..(n + 1) |-> <<first * n + (last_edge - first) * (j - 1), 2 * n>>]
        InBin(v, j) ==
            /\ edges[j][1] <= 2 * v * n
            /\ \/ 2 * v * n < edges[j + 1][1]
               \/ j = n /\ 2 * v * n = edges[j + 1][1]
        hist == [j \in 1..n |-> Cardinality({i \in 1..Len(x) : InBin(x[i], j)})]
    IN [hist |-> [j \in 1..n |-> <<hist[j] * 2 * n, (last_edge - first) * Len(x)>>],
        l_edges |-> [j \in 1..n |-> edges[j]],
        r_edges |-> [j \in 1..n |-> edges[j + 1]]]

\* the values of one group
ValuesArgs == UNION {[1..len -> 0..MaxValue] : len \in 1..MaxLen}

\* the chart as shown for bins=n: the histogram of np.histogram
ShowHistogram ==
    \E values \in ValuesArgs, n \in 1..MaxBins :
        /\ doc' = [kind |-> "histogram", orig |-> values, bins |-> n,
                   source |-> np_histogram(values, n), by |-> "np.histogram"]
        /\ UNCHANGED <<adata, scratch, cell_keys, kernel_params, kernel_default_params, opt_params,
                       last, prev, track>>

\* the slider callback on that histogram; the sort is in place
Rebin ==
    /\ doc.kind = "histogram"
    /\ \E value \in 1..MaxBins :
         doc' = [doc EXCEPT !.orig = Sort(@), !.bins = value,
                            !.source = inter_hist_js(doc.orig, value), !.by = "js"]
    /\ UNCHANGED <<adata, scratch, cell_keys, kernel_params, kernel_default_params, opt_params,
                   last, prev, track>>

-----------------------------------------------------------------------------
(* hist_thresh *)

\* pd.concat over the embeddings: the bases read, up to and including the first missing one
RECURSIVE BasesRead(_, _)
BasesRead(ad, bases) ==
    IF bases = <<>> THEN <<>>
    ELSE IF ("X_" \o Head(bases)) \notin DOMAIN ad.obsm THEN <<Head(bases)>>
    ELSE <<Head(bases)>> \o BasesRead(ad, Tail(bases))

BasesMissing(ad, bases) == \E i \in 1..Len(bases) : ("X_" \o bases[i]) \notin DOMAIN ad.obsm

EmbeddingLog(bs) == [i \in 1..Len(bs) |-> <<"embedding", bs[i]>>]

FigureLog(bs) == [i \in 1..Len(bs) |-> <<"figure", bs[i]>>]

hist_thresh(ad, key, bases) ==
    LET log1 == <<<<"figure", key>>>>
    IN IF key \notin DOMAIN ad.obs THEN Raise("KeyError", log1)
       ELSE LET log2 == log1 \o <<<<"histogram", key>>>> \o EmbeddingLog(BasesRead(ad, bases))
            IN IF BasesMissing(ad, bases) THEN Raise("KeyError", log2)
               ELSE Done(log2 \o <<<<"color_mapper", "category">>>> \o FigureLog(bases)
                              \o <<<<"slider", key>>, <<"show", "">>>>, NoRet)

KeyArgs == {"louvain", "zzz"}

BasesArgs == {<<"umap">>, <<"umap", "tsne">>}

HistThresh ==
    \E key \in KeyArgs, bases \in BasesArgs :
        /\ Record("hist_thresh", [key |-> key, bases |-> bases], hist_thresh(adata, key, bases))
        /\ scratch' = NoScratch
        /\ doc' = NoDoc
        /\ UNCHANGED <<adata, cell_keys, kernel_params, kernel_default_params, opt_params>>

-----------------------------------------------------------------------------
(* multi_link *)

Digits == <<"0", "1", "2", "3", "4", "5">>

\* str(i)
Str(i) == Digits[i + 1]

\* d[k] = v
DictSet(d, k, v) == [x \in (DOMAIN d) \cup {k} |-> IF x = k THEN v ELSE d[x]]

\* the object `ad_tmp = adata.copy()` names
AdCopy_alias(ref) == ref

AdCopy(ref) == "ad_tmp"

\* sc.tl.dpt(ad): pseudotime of every cell from the root cell ad.uns['iroot']
dpt(ad) ==
    [ad EXCEPT !.obs = DictSet(@, "dpt_pseudotime",
                               [c \in 1..NCells |-> IF Str(c - 1) = ad.uns["iroot"] THEN "0.0" ELSE "0.5"])]

\* the loop over the root cells i, i+1, ..., n_obs - 1 on the object `ref`
RECURSIVE DptLoop(_, _, _)
DptLoop(heap, ref, i) ==
    IF i >= NCells THEN heap
    ELSE LET rooted == [heap[ref] EXCEPT !.uns = DictSet(@, "iroot", Str(i))]
         IN DptLoop([heap EXCEPT ![ref] = dpt(rooted)], ref, i + 1)

\* the objects after the distance matrix is computed
DistanceHeap(ad, distance) ==
    LET heap0 == [r \in {"adata", "ad_tmp"} |-> ad]
    IN IF distance # "dpt" THEN heap0
       ELSE LET ad_tmp == AdCopy("adata")
            IN DptLoop([heap0 EXCEPT ![ad_tmp] = heap0["adata"]], ad_tmp, 0)

NoneStr == "<None>"

\* the column of the distance table the colour scale starts from
start_ix(ad) == DictGet(ad.uns, "iroot", Str(0))

multi_link(ad, bases, key, distance, highlight_only) ==
    IF highlight_only # NoneStr /\ highlight_only \notin DOMAIN ad.obs THEN Raise("AssertionError", <<>>)
    ELSE LET log1 == (IF distance = "dpt" THEN <<<<"copy", "adata">>>> ELSE <<>>)
                     \o <<<<"distance_matrix", distance>>>> \o EmbeddingLog(BasesRead(ad, bases))
         IN IF BasesMissing(ad, bases) THEN Raise("KeyError", log1)
            ELSE IF key \notin DOMAIN ad.obs THEN Raise("KeyError", log1)
            ELSE IF start_ix(ad) \notin {Str(c - 1) : c \in 1..NCells} THEN Raise("KeyError", log1)
            ELSE Done(log1 \o <<<<"color_mapper", "hl_color">>, <<"color_mapper", key>>>>
                           \o FigureLog(bases) \o FigureLog(bases)
                           \o <<<<"slider", "distance">>, <<"show", "">>>>, NoRet)

DistanceArgs == {"2", "dpt"}

Abs(x) == IF x < 0 THEN -x ELSE x

Max(S) == CHOOSE m \in S : \A y \in S : y <= m

\* the numbers of the distance table: <<n, d>> stands for n / d, and NaN has d = 0
NaN == <<0, 0>>

IsNaN(x) == x[2] = 0

Greater(x, y) == x[1] * y[2] > y[1] * x[2]

\* distance_matrix(X, X, p=distance)[i][j]: with g1 the only gene that varies, |x_i - x_j|
Norm(i, j) == <<Abs(XData("g1", i) - XData("g1", j)), 1>>

\* ad_tmp.obs['dpt_pseudotime'][c] after sc.tl.dpt with root r: the distance from the
\* root divided by the largest distance from the root
Pseudotime(r, c) ==
    <<Abs(XData("g1", r) - XData("g1", c)),
      Max({Abs(XData("g1", r) - XData("g1", k)) : k \in 1..NCells})>>

\* dmat: row i holds what was computed for cell i
dmat(distance) ==
    [i \in 1..NCells |-> [j \in 1..NCells |->
        IF distance = "dpt" THEN Pseudotime(i, j) ELSE Norm(i, j)]]

\* the index a column name or property key stands for
ParseInt(k) == CHOOSE i \in 0..(Len(Digits) - 1) : Digits[i + 1] = k

\* pd.DataFrame(dmat, columns=list(map(str, range(n_obs)))): column str(c) holds entry c of
\* every row
Columns(dm) ==
    [k \in {Str(c - 1) : c \in 1..NCells} |-> [i \in 1..NCells |-> dm[i][ParseInt(k) + 1]]]

\* df['hl_key']
hl_key(ad, highlight_only) ==
    [i \in 1..NCells |-> IF highlight_only # NoneStr THEN ad.obs[highlight_only][i] ELSE "0"]

\* the upper end of the slider
SliderEnd(distance) ==
    IF distance # "dpt"
    THEN <<Max({dmat(distance)[i][j][1] : i \in 1..NCells, j \in 1..NCells}), 1>>
    ELSE <<1, 1>>

\* what a callback overwrote: the colours and the remembered cell before the last event
Was(d) == [hl_color |-> d.hl_color, col |-> d.col]

\* the document shown: col_ds holds the list [start_ix], every hl_color is NaN; `event`,
\* `hovered`, `selected` and `was` record what the user did last and what it replaced
LinkDoc(ad, distance, highlight_only, highlight_cutoff) ==
    LET end == SliderEnd(distance)
        shown == [hl_color |-> [i \in 1..NCells |-> NaN],
                  col |-> [list |-> TRUE, value |-> start_ix(ad)]]
    IN [kind |-> "multi_link",
        data |-> Columns(dmat(distance)),
        hl_color |-> shown.hl_color,
        hl_key |-> hl_key(ad, highlight_only),
        slider |-> [end |-> end, value |-> <<end[1], 2 * end[2]>>],
        col |-> shown.col,
        highlight_cutoff |-> highlight_cutoff,
        event |-> "shown", hovered |-> FALSE, selected |-> "", was |-> shown]

\* update_color_code, `first` being the property key the value of `first` is read as
update_color_code(d, first) ==
    [i \in 1..NCells |->
        LET x == d.data[first][i]
        IN IF \/ IsNaN(x)
              \/ d.highlight_cutoff /\ Greater(x, d.slider.value)
              \/ d.hl_key[ParseInt(first) + 1] # d.hl_key[i]
           THEN NaN ELSE x]

MultiLink ==
    \E key \in KeyArgs, distance \in DistanceArgs, highlight_only \in {NoneStr, "louvain"},
       highlight_cutoff \in BOOLEAN :
        LET heap == DistanceHeap(adata, distance)
            res == multi_link(adata, <<"umap", "pca">>, key, distance, highlight_only)
            computed == "distance_matrix" \in Kinds(res.log)
        IN /\ Record("multi_link",
                     [key |-> key, distance |-> distance, highlight_only |-> highlight_only,
                      highlight_cutoff |-> highlight_cutoff], res)
           /\ adata' = IF computed THEN heap["adata"] ELSE adata
           /\ scratch' = IF computed /\ distance = "dpt" THEN heap["ad_tmp"] ELSE NoScratch
           /\ doc' = IF res.outcome = "ok"
                     THEN LinkDoc(adata, distance, highlight_only, highlight_cutoff)
                     ELSE NoDoc
           /\ UNCHANGED <<cell_keys, kernel_params, kernel_default_params, opt_params>>

\* the positions the slider is moved to: end * k / SliderSteps
SliderValues(end) == {<<end[1] * k, end[2] * SliderSteps>> : k \in 0..SliderSteps}

\* slider.callback
SliderCallback ==
    /\ doc.kind = "multi_link"
    /\ \E value \in SliderValues(doc.slider.end) :
         LET moved == [doc EXCEPT !.slider.value = value]
             first == doc.col.value
         IN doc' = [moved EXCEPT !.hl_color = update_color_code(moved, first),
                                 !.event = "slider", !.was = Was(doc)]
    /\ UNCHANGED <<adata, scratch, cell_keys, kernel_params, kernel_default_params, opt_params,
                   last, prev, track>>

\* h_tool.callback, with the indices of the cells under the pointer
HoverCallback ==
    /\ doc.kind = "multi_link"
    /\ \E indices \in {<<>>} \cup {<<c - 1>> : c \in 1..NCells} \cup {<<NCells - 1, 0>>} :
         IF Len(indices) = 0
         THEN doc' = [doc EXCEPT !.event = "hover_none", !.was = Was(doc)]
         ELSE LET first == Str(indices[1])
              IN doc' = [doc EXCEPT !.hl_color = update_color_code(doc, first),
                                    !.col = [list |-> FALSE, value |-> first],
                                    !.event = "hover", !.hovered = TRUE, !.selected = first,
                                    !.was = Was(doc)]
    /\ UNCHANGED <<adata, scratch, cell_keys, kernel_params, kernel_default_params, opt_params,
                   last, prev, track>>

-----------------------------------------------------------------------------
(* The `cell_keys` argument: a comma-separated str (modelled by its stripped fields)
   or a list object the caller owns *)

\* list(dict.fromkeys(map(str.strip, cell_keys.split(',')))), [''] giving []
ParseKeys(fields) ==
    LET l == FromKeys(fields) IN IF l = <<"">> THEN <<>> ELSE l

\* the keys of the loop `for k in cell_keys: df[k] = ... adata.obs[k]` read without error
ObsColumnsMissing(ad, ks) == \E i \in 1..Len(ks) : ks[i] \notin DOMAIN ad.obs

CellKeysStrArgs == {<<"">>, <<"n_counts">>, <<"zzz">>}

\* the argument values: [isStr, fields] for a str, the caller's list otherwise
CellKeysArgs == {[isStr |-> TRUE, fields |-> f] : f \in CellKeysStrArgs}
                    \cup {[isStr |-> FALSE, fields |-> <<>>]}

-----------------------------------------------------------------------------
(* plot_cell_indices *)

\* the tooltip keys added in front of the requested ones
WithNameAndIndex(ks) ==
    LET named == Insert0(ks, "name")
    IN IF "index" \notin Range(named) THEN Insert0(named, "index") ELSE named

\* res: how the call ended; list: the list object bound to cell_keys when it ended
plot_cell_indices(ad, key, basis, arg, caller_list) ==
    LET given == IF arg.isStr THEN ParseKeys(arg.fields) ELSE caller_list
    IN IF key \notin DOMAIN ad.obs THEN [res |-> Raise("ValueError", <<>>), list |-> given]
       ELSE IF ("X_" \o basis) \notin DOMAIN ad.obsm THEN [res |-> Raise("ValueError", <<>>), list |-> given]
       ELSE IF arg.isStr /\ ObsColumnsMissing(ad, given)
            THEN [res |-> Raise("AssertionError", <<>>), list |-> given]
       ELSE LET log1 == <<<<"embedding", basis>>>>
            IN IF ObsColumnsMissing(ad, given) THEN [res |-> Raise("KeyError", log1), list |-> given]
               ELSE LET ks == WithNameAndIndex(given)
                    IN [res |-> DoneChart(log1 \o <<<<"figure", key>>, <<"show", "">>>>,
                                          [tooltips |-> ks, hover |-> TRUE]),
                        list |-> ks]

BasisArgs == {"diffmap", "tsne"}

PlotCellIndices ==
    \E key \in KeyArgs, basis \in BasisArgs, arg \in CellKeysArgs :
        LET r == plot_cell_indices(adata, key, basis, arg, cell_keys)
        IN /\ Record("plot_cell_indices",
                     [key |-> key, basis |-> basis, cell_keys |-> arg, caller_list |-> cell_keys], r.res)
           /\ cell_keys' = IF arg.isStr THEN cell_keys ELSE r.list
           /\ scratch' = NoScratch
           /\ doc' = NoDoc
           /\ UNCHANGED <<adata, kernel_params, kernel_default_params, opt_params>>

-----------------------------------------------------------------------------
(* highlight_de *)

RankGenesKeys == {"names", "scores", "pvals_adj", "logfoldchanges", "params"}

\* adata.uns['rank_genes_groups']['params']['groupby']
groupby(ad) == ad.uns["rank_genes_groups"]

\* the groupby key put in front unless it is already in the list
WithGroupby(ks, key) == IF key \notin Range(ks) THEN Insert0(ks, key) ELSE ks

\* tooltips of the per-cell hover tool, added only when there is more than one key
CellTooltips(ks, key) ==
    [tooltips |-> <<key>> \o Tail1(ks), hover |-> Len(ks) > 1]

highlight_de(ad, basis, de_keys, arg, caller_list) ==
    LET given == IF arg.isStr THEN ParseKeys(arg.fields) ELSE caller_list
    IN IF "rank_genes_groups" \notin DOMAIN ad.uns THEN [res |-> Raise("ValueError", <<>>), list |-> given]
       ELSE IF ~(Range(ParseKeys(de_keys)) \subseteq RankGenesKeys)
            THEN [res |-> Raise("AssertionError", <<<<"de_keys", "">>>>), list |-> given]
       ELSE IF arg.isStr /\ ObsColumnsMissing(ad, given)
            THEN [res |-> Raise("AssertionError", <<<<"de_keys", "">>, <<"cell_keys", "">>>>), list |-> given]
       ELSE LET log0 == <<<<"de_keys", "">>, <<"cell_keys", "">>, <<"basis", basis>>>>
            IN IF ("X_" \o basis) \notin DOMAIN ad.obsm THEN [res |-> Raise("ValueError", log0), list |-> given]
               ELSE LET key == groupby(ad)
                        ks == WithGroupby(given, key)
                        log1 == log0 \o <<<<"embedding", basis>>>>
                    IN IF ObsColumnsMissing(ad, ks) THEN [res |-> Raise("KeyError", log1), list |-> ks]
                       ELSE [res |-> DoneChart(log1 \o <<<<"knn", key>>, <<"convex_hull", key>>,
                                                         <<"color_mapper", key>>, <<"figure", key>>,
                                                         <<"show", "">>>>,
                                               CellTooltips(ks, key)),
                             list |-> ks]

DeKeysArgs == {<<"names", "scores">>, <<"bogus">>}

HighlightDe ==
    \E basis \in {"umap", "tsne"}, de_keys \in DeKeysArgs, arg \in CellKeysArgs :
        LET r == highlight_de(adata, basis, de_keys, arg, cell_keys)
        IN /\ Record("highlight_de",
                     [basis |-> basis, de_keys |-> de_keys, cell_keys |-> arg, caller_list |-> cell_keys], r.res)
           /\ cell_keys' = IF arg.isStr THEN cell_keys ELSE r.list
           /\ scratch' = NoScratch
           /\ doc' = NoDoc
           /\ UNCHANGED <<adata, kernel_params, kernel_default_params, opt_params>>

-----------------------------------------------------------------------------
(* smooth_expression *)

\* the kernel table and the keyword arguments each kernel class takes
KernelTypes == {"const", "white", "rbf", "mat", "rq", "esn", "dp", "pw"}

KernelKeywords(kernel_type) ==
    CASE kernel_type = "const" -> {"constant_value", "constant_value_bounds"}
      [] kernel_type = "white" -> {"noise_level", "noise_level_bounds"}
      [] kernel_type = "rbf"   -> {"length_scale", "length_scale_bounds"}
      [] kernel_type = "mat"   -> {"length_scale", "length_scale_bounds", "nu"}
      [] kernel_type = "rq"    -> {"length_scale", "alpha", "length_scale_bounds", "alpha_bounds"}
      [] kernel_type = "esn"   -> {"length_scale", "periodicity", "length_scale_bounds", "periodicity_bounds"}
      [] kernel_type = "dp"    -> {"sigma_0", "sigma_0_bounds"}
      [] kernel_type = "pw"    -> {"gamma", "gamma_bounds", "metric", "pairwise_kernels_kwargs"}

\* the supported binary operators; there is no unary one
Operators == {"Add", "Mult", "Pow"}

\* the result of evaluating a node: a value or an exception (and the variable it was
\* raised for), with the two dicts as the evaluation left them
EvalOk(val, kp, kdp) == [err |-> "", at |-> "", val |-> val, kp |-> kp, kdp |-> kdp]
EvalErr(exc, at, kp, kdp) == [err |-> exc, at |-> at, val |-> <<>>, kp |-> kp, kdp |-> kdp]

\* what `params.pop('type', 'rbf')` leaves in the dict
PopType(params) == DictPop(params, "type")

\* the guard of the ValueError for a variable of kernel_expr
NameRejected(id, kp, default) == ~default /\ id \notin DOMAIN kp

\* the ast.Name branch of _eval
EvalName(id, kp, kdp, default) ==
    IF NameRejected(id, kp, default) THEN EvalErr("ValueError", id, kp, kdp)
    ELSE LET own == id \in DOMAIN kp
             params == IF own THEN kp[id] ELSE kdp
             kernel_type == DictGet(params, "type", "rbf")
             rest == PopType(params)
             kp2 == IF own THEN [kp EXCEPT ![id] = rest] ELSE kp
             kdp2 == IF own THEN kdp ELSE rest
         IN IF kernel_type \notin KernelTypes THEN EvalErr("KeyError", id, kp2, kdp2)
            ELSE IF ~((DOMAIN rest) \subseteq KernelKeywords(kernel_type))
                 THEN EvalErr("TypeError", id, kp2, kdp2)
            ELSE EvalOk(<<"Kernel", id, kernel_type, rest>>, kp2, kdp2)

\* a kernel built for variable `id`: its class and its keyword arguments
KernelOf(k) == [id |-> k[2], type |-> k[3], kwargs |-> k[4]]

\* _eval: nodes are <<"Num", n>>, <<"Name", id>>, <<"BinOp", op, left, right>>,
\* <<"UnaryOp", op, operand>>
RECURSIVE Eval(_, _, _, _)
Eval(node, kp, kdp, default) ==
    CASE node[1] = "Num" -> EvalOk(node, kp, kdp)
      [] node[1] = "Name" -> EvalName(node[2], kp, kdp, default)
      [] node[1] = "BinOp" ->
            IF node[2] \notin Operators THEN EvalErr("KeyError", "", kp, kdp)
            ELSE LET l == Eval(node[3], kp, kdp, default)
                 IN IF l.err # "" THEN l
                    ELSE LET r == Eval(node[4], l.kp, l.kdp, default)
                         IN IF r.err # "" THEN r
                            ELSE EvalOk(<<"BinOp", node[2], l.val, r.val>>, r.kp, r.kdp)
      [] node[1] = "UnaryOp" -> EvalErr("KeyError", "", kp, kdp)
      [] OTHER -> EvalErr("TypeError", "", kp, kdp)

\* the result of a call: how it ended, the variable an exception was raised for, the
\* returned (x_test, mean, cov) named by the fitted model, whether a regressor was
\* fitted, and the two dicts as the call left them
SmoothResult(outcome, at, model, fitted, kp, kdp, opt) ==
    [outcome |-> outcome, at |-> at, model |-> model, fitted |-> fitted, kp |-> kp, kdp |-> kdp,
     opt |-> opt]

\* the default length scale of the kernel ridge branch
DefaultLengthScale == "0.2"

\* gamma of the kernel ridge model: the keyword if given, else derived from the length scale
Gamma(opt, kdp) ==
    IF "gamma" \in DOMAIN opt THEN opt["gamma"]
    ELSE "1/(2*" \o DictGet(kdp, "length_scale", DefaultLengthScale) \o "**2)"

\* the kernel ridge branch
smooth_krr(kp, kdp, opt) ==
    LET kernel == DictGet(opt, "kernel", "rbf")
        rest == DictPop(DictPop(opt, "gamma"), "kernel")
    IN SmoothResult("ok", "", <<"KernelRidge", Gamma(opt, kdp), kernel, rest>>, TRUE, kp, kdp, rest)

\* the Gaussian process branch
smooth_gp(kp, kdp, kernel_expr, default, opt) ==
    IF kernel_expr = None /\ Cardinality(DOMAIN kp) # 1
    THEN SmoothResult("AssertionError", "", <<>>, FALSE, kp, kdp, opt)
    ELSE LET expr == IF kernel_expr = None THEN <<"Name", CHOOSE k \in DOMAIN kp : TRUE>>
                     ELSE kernel_expr
             e == Eval(expr, kp, kdp, default)
             alpha == DictGet(opt, "alpha", "std(y)")
             rest == DictSet(DictPop(DictPop(opt, "alpha"), "optimizer"), "kernel", "<kernel>")
         IN IF e.err # "" THEN SmoothResult(e.err, e.at, <<>>, FALSE, e.kp, e.kdp, opt)
            ELSE SmoothResult("ok", "", <<"GaussianProcessRegressor", e.val, alpha>>, TRUE,
                              e.kp, e.kdp, rest)

\* the test guarding the Gaussian process branch
IsGpMode_else(mode) == TRUE

IsGpMode(mode) == mode = "gp"

smooth_expression(mode, kp, kdp, kernel_expr, default, opt) ==
    IF mode = "krr" THEN smooth_krr(kp, kdp, opt)
    ELSE IF IsGpMode(mode) THEN smooth_gp(kp, kdp, kernel_expr, default, opt)
    ELSE SmoothResult("ValueError", "", <<>>, FALSE, kp, kdp, opt)

-----------------------------------------------------------------------------
(* plot_velocity *)

path_key == "louvain"
color_key == "louvain"

\* adata.var_names in order
VarNamesList == <<"g1", "g2">>

n_velocity_genes == 5

Min(a, b) == IF a < b THEN a ELSE b

\* every group named in any path
PathElems(paths) == UNION {Range(paths[i]) : i \in 1..Len(paths)}

\* the prerequisite check for the pseudotime
DptMissing_never(ad) == FALSE

DptMissing(ad) == "dpt_pseudotime" \notin DOMAIN ad.obs

\* the genes the loop runs over
GenesPlotted(ad, genes) ==
    IF genes = None
    THEN LET vg == SelectSeq(VarNamesList, LAMBDA g : ad.var["velocity_genes"][g] = "True")
         IN SubSeq(vg, 1, Min(n_velocity_genes, Len(vg)))
    ELSE SelectSeq(genes, LAMBDA g : g \in ad.var_names)

VelocityColumns(smooth) ==
    {"expr", "dpt", color_key} \cup (IF smooth THEN {"x_test", "x_mean", "x_cov"} ELSE {})

\* the defaultdict `data` filled for one gene: per column one entry per path
VelocityData(gene, paths, smooth) ==
    [col \in (IF paths = <<>> THEN {} ELSE VelocityColumns(smooth)) |->
        [i \in 1..Len(paths) |-> <<col, gene, Str(i)>>]]

\* ad = adata[path_ix].copy()
PathCopy(ad, path) ==
    LET path_ix == {c \in 1..NCells : ad.obs[path_key][c] \in Range(path)}
    IN [ad EXCEPT !.obs = [col \in DOMAIN ad.obs |-> [c \in path_ix |-> ad.obs[col][c]]]]

\* the smoothing call made for every gene and path
VelocitySmooth(mode) ==
    smooth_expression(mode, D1("k", D1("length_scale", DefaultLengthScale)), EmptyDict, None, FALSE,
                      EmptyDict)

\* the effects of the loop body for one gene
GeneLog(gene, paths, smooth) ==
    LET perPath == IF smooth THEN <<<<"copy", gene>>, <<"fit", gene>>>> ELSE <<<<"copy", gene>>>>
        RECURSIVE Rep(_)
        Rep(n) == IF n = 0 THEN <<>> ELSE perPath \o Rep(n - 1)
    IN Rep(Len(paths)) \o <<<<"figure", gene>>>>

RECURSIVE GenesLog(_, _, _)
GenesLog(gs, paths, smooth) ==
    IF gs = <<>> THEN <<>> ELSE GeneLog(Head(gs), paths, smooth) \o GenesLog(Tail(gs), paths, smooth)

\* `return data`: the dict of the last gene of the loop, if any
ReturnedData(gs, paths, smooth) == VelocityData(gs[Len(gs)], paths, smooth)

plot_velocity(ad, paths, genes, mode, smooth, return_values) ==
    IF PathElems(paths) # {} /\ path_key \notin DOMAIN ad.obs THEN Raise("KeyError", <<>>)
    ELSE IF PathElems(paths) # {} /\ ~(PathElems(paths) \subseteq Range(ad.obs[path_key]))
         THEN Raise("AssertionError", <<>>)
    ELSE IF DptMissing(ad) THEN Raise("ValueError", <<>>)
    ELSE IF color_key \notin DOMAIN ad.obs THEN Raise("KeyError", <<>>)
    ELSE LET gs == GenesPlotted(ad, genes)
             log1 == <<<<"color_mapper", color_key>>>>
             sm == VelocitySmooth(mode)
         IN IF smooth /\ gs # <<>> /\ paths # <<>> /\ sm.outcome # "ok"
            THEN Raise(sm.outcome, log1 \o <<<<"copy", Head(gs)>>>>)
            ELSE LET log2 == log1 \o GenesLog(gs, paths, smooth) \o <<<<"show", "">>>>
                 IN IF ~return_values THEN Done(log2, NoRet)
                    ELSE IF gs = <<>> THEN Raise("UnboundLocalError", log2)
                    ELSE Done(log2, [isNone |-> FALSE, data |-> ReturnedData(gs, paths, smooth)])

PathsArgs == {<<>>, <<<<"0">>>>, <<<<"0", "1">>, <<"1">>>>, <<<<"9">>>>}

GenesArgs == {None, <<>>, <<"g2", "g1">>, <<"gX", "g1">>}

PlotVelocity ==
    \E paths \in PathsArgs, genes \in GenesArgs, smooth \in BOOLEAN, return_values \in BOOLEAN :
        LET res == plot_velocity(adata, paths, genes, "gp", smooth, return_values)
            copied == "copy" \in Kinds(res.log)
        IN /\ Record("plot_velocity",
                     [paths |-> paths, genes |-> genes, smooth |-> smooth, return_values |-> return_values],
                     res)
           /\ scratch' = IF copied THEN PathCopy(adata, paths[Len(paths)]) ELSE NoScratch
           /\ doc' = NoDoc
           /\ UNCHANGED <<adata, cell_keys, kernel_params, kernel_default_params, opt_params>>

-----------------------------------------------------------------------------
(* Calls of smooth_expression by the caller *)

\* the kernel_params and kernel_default_params objects the caller holds
KernelParamsArgs ==
    { EmptyDict,
      D1("a", D1("length_scale", "0.2")),
      D1("a", D2("type", "const", "constant_value", "1.0")),
      D2("a", D2("type", "mat", "length_scale", "0.2"), "b", D1("type", "white")) }

KernelDefaultParamsArgs ==
    { EmptyDict,
      D1("length_scale", "0.5"),
      D1("type", "const"),
      D2("type", "const", "constant_value", "1.0") }

Name(id) == <<"Name", id>>
BinOp(left, op, right) == <<"BinOp", op, left, right>>

\* kernel_expr: None, 'a', 'a + b', 'a * a', 'a * a + b', 'b * c', '(a + b) ** 2'
KernelExprArgs ==
    { None, Name("a"), BinOp(Name("a"), "Add", Name("b")), BinOp(Name("a"), "Mult", Name("a")),
      BinOp(BinOp(Name("a"), "Mult", Name("a")), "Add", Name("b")),
      BinOp(Name("b"), "Mult", Name("c")),
      BinOp(BinOp(Name("a"), "Add", Name("b")), "Pow", <<"Num", "2">>) }

\* (mode, kernel_expr, default)
OptParamsArgs == {EmptyDict, D1("alpha", "0.1"), D1("gamma", "2")}

SmoothArgs ==
    {<<"gp", e, d, EmptyDict>> : e \in KernelExprArgs, d \in BOOLEAN}
        \cup {<<"krr", None, FALSE, EmptyDict>>}
        \cup {<<mode, None, TRUE, o>> : mode \in {"gp", "krr", "lin"}, o \in OptParamsArgs}

SmoothLog(r, mode) ==
    <<<<"linspace", "">>>>
        \o (IF r.fitted THEN <<<<"fit", mode>>>> ELSE <<>>)
        \o (IF r.at # "" THEN <<<<"raised_for", r.at>>>> ELSE <<>>)

SmoothExpression ==
    \E a \in SmoothArgs :
        LET r == smooth_expression(a[1], kernel_params, kernel_default_params, a[2], a[3], a[4])
        IN /\ Record("smooth_expression",
                     [mode |-> a[1], kernel_expr |-> a[2], default |-> a[3],
                      kernel_params |-> kernel_params, kernel_default_params |-> kernel_default_params,
                      opt_params |-> a[4]],
                     [outcome |-> r.outcome, log |-> SmoothLog(r, a[1]),
                      ret |-> [isNone |-> FALSE, data |-> r.model], chart |-> NoChart])
           /\ kernel_params' = r.kp
           /\ kernel_default_params' = r.kdp
           /\ opt_params' = r.opt
           /\ doc' = NoDoc
           /\ UNCHANGED <<adata, scratch, cell_keys>>

-----------------------------------------------------------------------------
(* Specifications *)

Init ==
    /\ adata \in Adatas
    /\ scratch = NoScratch
    /\ cell_keys = <<"n_counts">>
    /\ kernel_params = EmptyDict
    /\ kernel_default_params = EmptyDict
    /\ opt_params = EmptyDict
    /\ doc = NoDoc
    /\ last = NoCall
    /\ prev = NoCall
    /\ track = FALSE

Next ==
    \/ InteractiveHistograms
    \/ HistThresh
    \/ MultiLink
    \/ PlotCellIndices
    \/ HighlightDe
    \/ PlotVelocity

Spec == Init /\ [][Next]_vars

\* repeated calls of smooth_expression with the caller's two dict objects
InitSmooth ==
    /\ adata = DefaultAdata
    /\ scratch = NoScratch
    /\ cell_keys = <<>>
    /\ kernel_params \in KernelParamsArgs
    /\ kernel_default_params \in KernelDefaultParamsArgs
    /\ opt_params = EmptyDict
    /\ doc = NoDoc
    /\ last = NoCall
    /\ prev = NoCall
    /\ track = TRUE

NextSmooth ==
    \/ SmoothExpression

SpecSmooth == InitSmooth /\ [][NextSmooth]_vars

\* repeated calls of the two functions that take `cell_keys`, on one list object
CallerLists == {<<>>, <<"n_counts">>, <<"n_counts", "louvain">>}

InitRepeat ==
    /\ adata \in {DefaultAdata, MkAdata(ObsUniverse, FALSE, FALSE)}
    /\ scratch = NoScratch
    /\ cell_keys \in CallerLists
    /\ kernel_params = EmptyDict
    /\ kernel_default_params = EmptyDict
    /\ opt_params = EmptyDict
    /\ doc = NoDoc
    /\ last = NoCall
    /\ prev = NoCall
    /\ track = TRUE

NextRepeat ==
    \/ PlotCellIndices
    \/ HighlightDe

SpecRepeat == InitRepeat /\ [][NextRepeat]_vars

InitHist ==
    /\ adata \in {DefaultAdata, MkAdata(ObsUniverse \ {"louvain"}, FALSE, FALSE)}
    /\ scratch = NoScratch
    /\ cell_keys = <<>>
    /\ kernel_params = EmptyDict
    /\ kernel_default_params = EmptyDict
    /\ opt_params = EmptyDict
    /\ doc = NoDoc
    /\ last = NoCall
    /\ prev = NoCall
    /\ track = FALSE

NextHist ==
    \/ InteractiveHistogramsBins
    \/ SliderChange

SpecHist == InitHist /\ [][NextHist]_vars

InitLink ==
    /\ adata \in {DefaultAdata, MkAdata(ObsUniverse, TRUE, TRUE)}
    /\ scratch = NoScratch
    /\ cell_keys = <<>>
    /\ kernel_params = EmptyDict
    /\ kernel_default_params = EmptyDict
    /\ opt_params = EmptyDict
    /\ doc = NoDoc
    /\ last = NoCall
    /\ prev = NoCall
    /\ track = FALSE

NextLink ==
    \/ MultiLink
    \/ SliderCallback
    \/ HoverCallback

SpecLink == InitLink /\ [][NextLink]_vars

InitRebin ==
    /\ adata = DefaultAdata
    /\ scratch = NoScratch
    /\ cell_keys = <<>>
    /\ kernel_params = EmptyDict
    /\ kernel_default_params = EmptyDict
    /\ opt_params = EmptyDict
    /\ doc = NoDoc
    /\ last = NoCall
    /\ prev = NoCall
    /\ track = FALSE

NextRebin ==
    \/ ShowHistogram
    \/ Rebin

SpecRebin == InitRebin /\ [][NextRebin]_vars


-----------------------------------------------------------------------------
(* Claims about interactive_histograms *)

IsHist == last.fn = "interactive_histograms"

\* C1: if any requested key is in none of adata.obs, adata.var and adata.var_names,
\* interactive_histograms raises ValueError before any histogram is computed, any
\* figure or slider is created and before show() is called.
C1_UnknownKeyRaises ==
    (IsHist /\ \E i \in 1..Len(last.args.keys) :
                    /\ last.args.keys[i] \notin DOMAIN adata.obs
                    /\ last.args.keys[i] \notin DOMAIN adata.var
                    /\ last.args.keys[i] \notin adata.var_names)
    => /\ last.outcome = "ValueError"
       /\ Kinds(last.log) \cap {"histogram", "figure", "slider", "show"} = {}

\* a call with a valid bin range whose second key is unknown was rejected by the key check
C1_Witness ==
    /\ IsHist
    /\ last.args.min_bins >= 1 /\ last.args.max_bins >= last.args.min_bins
    /\ last.args.keys = <<"n_counts", "zzz">>
    /\ "n_counts" \in DOMAIN adata.obs
    /\ last.outcome = "ValueError"
    /\ last.log = <<<<"lookup", "n_counts">>, <<"lookup", "zzz">>>>

\* C2: if min_bins < 1 or max_bins < min_bins, interactive_histograms raises ValueError
\* before any key is looked up, any histogram is computed and anything is plotted; if
\* 1 <= min_bins <= max_bins the range check raises nothing.
C2_BinRangeChecked ==
    IsHist =>
        /\ (last.args.min_bins < 1 \/ last.args.max_bins < last.args.min_bins)
              => (last.outcome = "ValueError" /\ last.log = <<>>)
        /\ (1 <= last.args.min_bins /\ last.args.min_bins <= last.args.max_bins)
              => ~(last.outcome = "ValueError" /\ last.log = <<>>)

\* a call with min_bins = 0 and only known keys was rejected at once
C2_Witness ==
    /\ IsHist
    /\ last.args.min_bins = 0
    /\ last.args.keys = <<"g1", "n_cells">>
    /\ last.outcome = "ValueError"
    /\ last.log = <<>>


-----------------------------------------------------------------------------
(* Claims about smooth_expression *)

IsSmooth == last.fn = "smooth_expression"

RECURSIVE NamesOf(_)
NamesOf(node) ==
    CASE node[1] = "Name" -> {node[2]}
      [] node[1] = "BinOp" -> NamesOf(node[3]) \cup NamesOf(node[4])
      [] OTHER -> {}

RECURSIVE KernelLeaves(_)
KernelLeaves(v) ==
    CASE v[1] = "Kernel" -> {KernelOf(v)}
      [] v[1] = "BinOp" -> KernelLeaves(v[3]) \cup KernelLeaves(v[4])
      [] OTHER -> {}

\* C4: two successive calls of smooth_expression with the same dict objects and the same
\* other arguments end the same way and return the same (x_test, mean, cov); a 'type'
\* entry of kernel_default_params is in effect for every variable built from it.
C4_SmoothIdempotent ==
    /\ (IsSmooth /\ prev.fn = "smooth_expression"
          /\ prev.args.mode = last.args.mode
          /\ prev.args.kernel_expr = last.args.kernel_expr
          /\ prev.args.default = last.args.default
          /\ prev.args.opt_params = last.args.opt_params)
       => (last.outcome = prev.outcome /\ last.ret = prev.ret)
    /\ (IsSmooth /\ last.args.mode = "gp" /\ last.outcome = "ok" /\ last.args.kernel_expr # None)
       => \A k \in KernelLeaves(last.ret.data[2]) :
             k.id \notin DOMAIN last.args.kernel_params
                => k.type = DictGet(last.args.kernel_default_params, "type", "rbf")

\* C9: in mode 'gp' with default=True, empty kernel_params and no kernel_expr,
\* smooth_expression fits the default RBF kernel and returns.
C9_DefaultKernelUsed ==
    (IsSmooth /\ last.args.mode = "gp" /\ last.args.default
        /\ last.args.kernel_params = EmptyDict /\ last.args.kernel_expr = None)
    => /\ last.outcome = "ok"
       /\ \A k \in KernelLeaves(last.ret.data[2]) : k.type = "rbf"

\* C10: in mode 'gp', if kernel_expr names a variable that is no key of kernel_params:
\* with default False the call raises ValueError before any model is fitted; with default
\* True the variable is built from kernel_default_params and no error is raised for it.
C10_MissingVariable ==
    (IsSmooth /\ last.args.mode = "gp" /\ last.args.kernel_expr # None
        /\ NamesOf(last.args.kernel_expr) \ DOMAIN last.args.kernel_params # {})
    => /\ ~last.args.default => (last.outcome = "ValueError" /\ "fit" \notin Kinds(last.log))
       /\ last.args.default =>
            /\ \A id \in NamesOf(last.args.kernel_expr) \ DOMAIN last.args.kernel_params :
                    <<"raised_for", id>> \notin Range(last.log)
            /\ last.outcome = "ok" =>
                 \A k \in KernelLeaves(last.ret.data[2]) :
                    k.id \notin DOMAIN last.args.kernel_params
                       => /\ k.type = DictGet(last.args.kernel_default_params, "type", "rbf")
                          /\ k.kwargs = DictPop(last.args.kernel_default_params, "type")

\* C11: smooth_expression accepts exactly the modes 'gp' and 'krr': with any other mode it
\* raises ValueError, fits no regressor and leaves kernel_params, kernel_default_params and
\* opt_params as they were passed; with 'gp' or 'krr' a ValueError only ever comes from a
\* variable of the kernel expression.
C11_UnknownModeRaises ==
    IsSmooth =>
        /\ last.args.mode \notin {"gp", "krr"} =>
              /\ last.outcome = "ValueError"
              /\ "fit" \notin Kinds(last.log)
              /\ kernel_params = last.args.kernel_params
              /\ kernel_default_params = last.args.kernel_default_params
              /\ opt_params = last.args.opt_params
        /\ (last.args.mode \in {"gp", "krr"} /\ last.outcome = "ValueError") =>
              "raised_for" \in Kinds(last.log)

C11_Witness ==
    /\ IsSmooth
    /\ last.args.mode = "lin"
    /\ last.args.opt_params # EmptyDict
    /\ last.args.kernel_params # EmptyDict
    /\ last.outcome = "ValueError"


-----------------------------------------------------------------------------
(* Claims about the plotting calls *)

\* C3: when `key` is no column of adata.obs, hist_thresh, multi_link and
\* plot_cell_indices raise before any histogram, distance matrix or colour mapper is
\* computed and before any chart is shown.
C3_MissingKeyRaisesFirst ==
    (last.fn \in {"hist_thresh", "multi_link", "plot_cell_indices"} /\ last.args.key \notin DOMAIN adata.obs)
    => /\ last.outcome \notin {"ok", "none"}
       /\ Kinds(last.log) \cap {"histogram", "distance_matrix", "color_mapper", "show"} = {}

IsCellKeysCall == last.fn \in {"plot_cell_indices", "highlight_de"}

SameCellKeysCall ==
    /\ prev.fn = last.fn
    /\ prev.args.basis = last.args.basis
    /\ prev.args.cell_keys = last.args.cell_keys
    /\ (last.fn = "plot_cell_indices" => prev.args.key = last.args.key)
    /\ (last.fn = "highlight_de" => prev.args.de_keys = last.args.de_keys)

\* C5: calling plot_cell_indices or highlight_de twice with the same arguments (the same
\* cell_keys list object included) gives the same outcome and the same tooltip keys, and
\* the caller's cell_keys list is after the call what it was before it.
C5_NoHiddenState ==
    /\ (IsCellKeysCall /\ SameCellKeysCall)
          => (last.outcome = prev.outcome /\ last.chart = prev.chart)
    /\ IsCellKeysCall => cell_keys = last.args.caller_list

\* the keys requested by the cell_keys argument of the last call
RequestedKeys ==
    IF last.args.cell_keys.isStr THEN ParseKeys(last.args.cell_keys.fields)
    ELSE last.args.caller_list

Count(seq, x) == Cardinality({i \in DOMAIN seq : seq[i] = x})

\* C15: when highlight_de draws its chart, the per-cell tooltip lists the groupby key
\* once and every other requested key exactly once, wherever the groupby key stands in
\* cell_keys; the tooltip is attached whenever another key was requested.
C15_TooltipKeysOnce ==
    (last.fn = "highlight_de" /\ last.outcome = "ok") =>
        LET key == groupby(adata)
            others == Range(RequestedKeys) \ {key}
        IN /\ Count(last.chart.tooltips, key) = 1
           /\ \A k \in others : Count(last.chart.tooltips, k) = 1
           /\ others # {} => last.chart.hover

-----------------------------------------------------------------------------
(* Claims about the histogram document *)

IsHistDoc == last.fn = "interactive_histograms" /\ last.outcome = "ok" /\ doc.kind = "histograms"

\* the histograms of `hists` drawn for the value combination `vals`
DrawnFor(hists, vals) == {j \in DOMAIN hists : hists[j].group_vs = vals}

\* C12: with `groups` given, every figure holds exactly one histogram for each combination of
\* group values that has an observation, drawn from the observations of that combination,
\* none for the other combinations, and one histogram over all observations exactly when
\* display_all is set; with groups None it holds one histogram, labelled 'all', over all
\* observations.
C12_GroupHistograms ==
    IsHistDoc =>
        \A k \in DOMAIN doc.figs :
            LET hists == doc.figs[k].hists
                groups == last.args.groups
            IN IF groups = None
               THEN Len(hists) = 1 /\ hists[1].legend = "all" /\ hists[1].ad = AllCells
               ELSE LET occupied == {vals \in Range(Combs(adata, groups)) :
                                        Subset(adata, groups, vals) # {}}
                    IN /\ \A vals \in occupied : Cardinality(DrawnFor(hists, vals)) = 1
                       /\ \A j \in DOMAIN hists :
                             IF hists[j].group_vs = <<"all">>
                             THEN hists[j].ad = AllCells
                             ELSE /\ hists[j].group_vs \in occupied
                                  /\ hists[j].ad = Subset(adata, groups, hists[j].group_vs)
                       /\ Cardinality(DrawnFor(hists, <<"all">>))
                             = (IF last.args.display_all THEN 1 ELSE 0)

C12_Witness ==
    /\ IsHistDoc
    /\ last.args.groups = <<"louvain", "n_counts">>
    /\ last.args.display_all
    /\ Len(Combs(adata, last.args.groups)) = 4
    /\ Len(doc.figs[1].hists) = 3
    /\ doc.figs[1].hists[3].legend = "louvain: all"

\* C13: in the chart as shown and after any slider change, every slider's value lies in
\* [min_bins, max_bins] and every histogram of its figure has exactly that many bins.
C13_SliderBins ==
    IsHistDoc =>
        \A k \in DOMAIN doc.figs :
            LET fig == doc.figs[k]
            IN /\ fig.slider.value \in last.args.min_bins..last.args.max_bins
               /\ \A j \in DOMAIN fig.hists : fig.hists[j].bins = fig.slider.value

-----------------------------------------------------------------------------
(* Claims about the linked plots *)

IsLinkDoc == last.fn = "multi_link" /\ last.outcome = "ok" /\ doc.kind = "multi_link"

\* the distance from cell c to cell i under the `distance` of the last call
DistanceFrom(c, i) == IF last.args.distance = "dpt" THEN Pseudotime(c, i) ELSE Norm(c, i)

SameNumber(x, y) ==
    IF IsNaN(x) \/ IsNaN(y) THEN IsNaN(x) /\ IsNaN(y) ELSE x[1] * y[2] = y[1] * x[2]

\* the colour the claim gives cell i when cell c is the reference
Highlighted(c, i) ==
    LET x == DistanceFrom(c, i)
        key == hl_key(adata, last.args.highlight_only)
    IN IF /\ ~IsNaN(x)
          /\ last.args.highlight_cutoff => ~Greater(x, doc.slider.value)
          /\ key[i] = key[c]
       THEN x ELSE NaN

\* C14: once a hover has selected cell c, and through later slider changes and empty
\* hovers, hl_color[i] is the distance from c to i when that is a number, within the slider
\* value (with highlight_cutoff) and i shares the hl_key of c, and NaN otherwise; a slider
\* change before any hover takes the root cell for c; a hover over no cell changes neither
\* hl_color nor the remembered cell.
C14_Highlighting ==
    IsLinkDoc =>
        /\ (doc.hovered \/ doc.event = "slider") =>
              LET c == ParseInt(IF doc.hovered THEN doc.selected ELSE start_ix(adata)) + 1
              IN \A i \in 1..NCells : SameNumber(doc.hl_color[i], Highlighted(c, i))
        /\ doc.event = "hover_none" =>
              doc.hl_color = doc.was.hl_color /\ doc.col = doc.was.col

\* C6: no call changes the caller's data object.
C6_AdataNeverMutated == [][adata' = adata]_vars

\* multi_link with distance='dpt' ran to its end: the root and the pseudotime were
\* written on the transient object, the caller's object has neither
C6_Witness ==
    /\ last.fn = "multi_link" /\ last.args.distance = "dpt" /\ last.outcome = "ok"
    /\ "iroot" \in DOMAIN scratch.uns /\ scratch.uns["iroot"] = Str(NCells - 1)
    /\ "dpt_pseudotime" \in DOMAIN scratch.obs
    /\ "iroot" \notin DOMAIN adata.uns
    /\ "dpt_pseudotime" \notin DOMAIN adata.obs

IsVelocity == last.fn = "plot_velocity"

\* the loop over the paths finds every named group among the categories
PathsAccepted ==
    \/ PathElems(last.args.paths) = {}
    \/ /\ path_key \in DOMAIN adata.obs
       /\ PathElems(last.args.paths) \subseteq Range(adata.obs[path_key])

DeMissingRaises ==
    (last.fn = "highlight_de" /\ "rank_genes_groups" \notin DOMAIN adata.uns)
    => (last.outcome = "ValueError" /\ last.log = <<>>)

\* C7 as stated: highlight_de raises ValueError whenever 'rank_genes_groups' is not in
\* adata.uns, before any other argument is examined; plot_velocity raises ValueError
\* whenever 'dpt_pseudotime' is not in adata.obs, for every value of paths and genes.
C7_PrerequisiteMissingRaises ==
    /\ DeMissingRaises
    /\ (IsVelocity /\ "dpt_pseudotime" \notin DOMAIN adata.obs) => last.outcome = "ValueError"

\* C7 amended: highlight_de as stated; plot_velocity raises ValueError whenever
\* 'dpt_pseudotime' is not in adata.obs and every group named in paths is a category of
\* the column adata.obs[path_key], for every value of genes; otherwise the check of the
\* paths raises first (AssertionError for a group that is no category, KeyError when
\* the column is missing).
C7_PrerequisiteMissingRaisesAfterPaths ==
    /\ DeMissingRaises
    /\ (IsVelocity /\ "dpt_pseudotime" \notin DOMAIN adata.obs /\ PathsAccepted)
          => (last.outcome = "ValueError" /\ last.log = <<>>)
    /\ (IsVelocity /\ ~PathsAccepted) => last.outcome \in {"AssertionError", "KeyError"}

\* plot_velocity on data without pseudotime, with a valid path and genes given
C7_Witness ==
    /\ IsVelocity
    /\ "dpt_pseudotime" \notin DOMAIN adata.obs
    /\ last.args.paths = <<<<"0", "1">>, <<"1">>>>
    /\ last.args.genes = <<"g2", "g1">>
    /\ last.outcome = "ValueError"

\* C8: with return_values=True plot_velocity returns, for every gene plotted and every
\* list of genes (the empty one included), the computed columns with one entry per path;
\* with return_values=False it returns None.
C8_ReturnsEveryGene ==
    (IsVelocity /\ "show" \in Kinds(last.log))
    => IF last.args.return_values
       THEN /\ last.outcome = "ok"
            /\ ~last.ret.isNone
            /\ \A e \in Range(last.log) :
                  e[1] = "figure" =>
                     \A col \in VelocityColumns(last.args.smooth), i \in 1..Len(last.args.paths) :
                        /\ col \in DOMAIN last.ret.data
                        /\ <<col, e[2], Str(i)>> \in Range(last.ret.data[col])
       ELSE last.outcome = "ok" /\ last.ret.isNone

-----------------------------------------------------------------------------
(* Claims about the rebinning callback *)

SameNumbers(a, b) ==
    /\ Len(a) = Len(b)
    /\ \A j \in 1..Len(a) : SameNumber(a[j], b[j])

\* C16: after the callback has run with slider value n, the source holds the bin edges and
\* the densities of np.histogram(values, bins=n, density=True).
C16_RebinMatchesNumpy ==
    (doc.kind = "histogram" /\ doc.by = "js") =>
        LET np == np_histogram(doc.orig, doc.bins)
        IN /\ SameNumbers(doc.source.l_edges, np.l_edges)
           /\ SameNumbers(doc.source.r_edges, np.r_edges)
           /\ SameNumbers(doc.source.hist, np.hist)

=============================================================================
